---- MODULE Spec2Model ----
(***************************************************************************)
(* A model of .github/workflows_templates/from_template.py: the template   *)
(* expander _substitute and its caller main.                               *)
(*                                                                         *)
(* Text is a sequence of one-character strings, so that columns, line      *)
(* boundaries and the regular expressions of the source are computed on    *)
(* characters, as Python computes them.  Positions are 1-based here and    *)
(* 0-based in the source.                                                  *)
(***************************************************************************)
EXTENDS Integers, Sequences, FiniteSets, TLC

(***************************************************************************)
(* Bounds of the model.                                                    *)
(***************************************************************************)
\* tokens in a generated template body
MaxTokens == 3
\* lines in a generated template with a declaration header
MaxLines == 3
\* documents main generates in one run
MaxDocs == 2
\* times the script is run (the first run and its reruns)
MaxRuns == 2
\* the pass counter stops counting here
MaxPasses == 4
\* the longest text buffer the model follows (a growing cycle never ends)
MaxLen == 160

(***************************************************************************)
(* Characters and the character classes of the regular expressions.        *)
(***************************************************************************)
NL == "\n"
SP == " "

Letters ==
    {"a","b","c","d","e","f","g","h","i","j","k","l","m","n","o","p","q","r",
     "s","t","u","v","w","x","y","z","A","B","C","D","E","F","G","H","I","J",
     "K","L","M","N","O","P","Q","R","S","T","U","V","W","X","Y","Z"}

Digits == {"0","1","2","3","4","5","6","7","8","9"}

\* \w
WordChars == Letters \cup Digits \cup {"_"}

\* [-\w]
NameChars == WordChars \cup {"-"}

\* [-\.\w]
ValueChars == WordChars \cup {"-", "."}

(***************************************************************************)
(* String functions of Python, on character sequences.                     *)
(***************************************************************************)
Min(S) == CHOOSE x \in S : \A y \in S : x <= y

Max(S) == CHOOSE x \in S : \A y \in S : x >= y

\* ' ' * n
Spaces(n) == [k \in 1..n |-> SP]

\* text[from - 1:]
Drop(text, from) == SubSeq(text, from, Len(text))

\* text.startswith(pat, p - 1)
MatchAt(text, pat, p) ==
    /\ p >= 1
    /\ p + Len(pat) - 1 <= Len(text)
    /\ SubSeq(text, p, p + Len(pat) - 1) = pat

\* the position of the first newline at or after p, Len(text) + 1 when none
LineEnd(text, p) ==
    Min({q \in p..Len(text) : text[q] = NL} \cup {Len(text) + 1})

RECURSIVE SplitChomped(_)
\* a split that takes no account of a line feed at the end of val
SplitChomped(val) ==
    LET e == LineEnd(val, 1)
    IN  IF e >= Len(val) THEN <<SubSeq(val, 1, e - 1)>>
        ELSE <<SubSeq(val, 1, e - 1)>> \o SplitChomped(Drop(val, e + 1))

RECURSIVE Split(_)
\* val.split('\n')
Split(val) ==
    LET e == LineEnd(val, 1)
    IN  IF e > Len(val) THEN <<val>>
        ELSE <<SubSeq(val, 1, e - 1)>> \o Split(Drop(val, e + 1))

RECURSIVE Join(_, _)
\* sep.join(parts)
Join(parts, sep) ==
    IF parts = <<>> THEN <<>>
    ELSE IF Len(parts) = 1 THEN parts[1]
    ELSE parts[1] \o sep \o Join(Tail(parts), sep)

RECURSIVE ReadLines(_)
\* f.readlines(): the lines, each with its newline
ReadLines(text) ==
    IF text = <<>> THEN <<>>
    ELSE LET e == LineEnd(text, 1)
         IN  IF e > Len(text) THEN <<text>>
             ELSE <<SubSeq(text, 1, e)>> \o ReadLines(Drop(text, e + 1))

\* '<<{}>>'.format(sub_key)
Bracket(key) == <<"<", "<">> \o key \o <<">", ">">>

(***************************************************************************)
(* The regular expressions of _substitute.                                 *)
(***************************************************************************)
\* the first position at or after p whose character is not in class
RunEnd(line, p, class) ==
    Min({q \in p..Len(line) : line[q] \notin class} \cup {Len(line) + 1})

\* '$' without re.MULTILINE also matches before a newline that ends the string
Chomp(line) ==
    IF line # <<>> /\ line[Len(line)] = NL
    THEN SubSeq(line, 1, Len(line) - 1)
    ELSE line

ArgumentsWord == <<"A","r","g","u","m","e","n","t","s",":">>

\* argument_header_finder.match(line) with '^ *# *Arguments: *$'
HeaderMatch(line) ==
    LET l  == Chomp(line)
        p1 == RunEnd(l, 1, {SP})
        p2 == RunEnd(l, p1 + 1, {SP})
    IN  /\ NL \notin {l[q] : q \in 1..Len(l)}
        /\ MatchAt(l, <<"#">>, p1)
        /\ MatchAt(l, ArgumentsWord, p2)
        /\ RunEnd(l, p2 + Len(ArgumentsWord), {SP}) = Len(l) + 1

\* argument_finder.match(line) is None
NoArgument == [name |-> <<>>, value |-> <<>>]

\* argument_finder.match(line) with '^ *# *([-\w]+): *([-\.\w]+) *(#.*)?$':
\* groups 1 and 2
ArgumentMatch(line) ==
    LET l  == Chomp(line)
        p1 == RunEnd(l, 1, {SP})
        p2 == RunEnd(l, p1 + 1, {SP})
        p3 == RunEnd(l, p2, NameChars)
        p4 == RunEnd(l, p3 + 1, {SP})
        p5 == RunEnd(l, p4, ValueChars)
        p6 == RunEnd(l, p5, {SP})
    IN  IF /\ NL \notin {l[q] : q \in 1..Len(l)}
           /\ MatchAt(l, <<"#">>, p1)
           /\ p3 > p2
           /\ MatchAt(l, <<":">>, p3)
           /\ p5 > p4
           /\ (p6 = Len(l) + 1 \/ l[p6] = "#")
        THEN [name |-> SubSeq(l, p2, p3 - 1), value |-> SubSeq(l, p4, p5 - 1)]
        ELSE NoArgument

\* the positions where '^' matches under re.MULTILINE
LineStarts(text) == {1} \cup {p \in 2..Len(text) + 1 : text[p - 1] = NL}

\* where pat begins within the line that begins at s
Occurrences(text, pat, s) ==
    {p \in s..LineEnd(text, s) - 1 : MatchAt(text, pat, p)}

\* sub_re.search(template) is None
NotSearched == [start |-> 0, end |-> 0]

\* the occurrence of pat that '.*' stops at in the line beginning at s: '.*' is
\* greedy, so the match ends with the last one of the line
GreedyOccurrence(text, pat, s) == Max(Occurrences(text, pat, s))

\* a search without re.MULTILINE: '^' matches at the start of the text only
SubSearchFirstLine(text, key) ==
    IF Occurrences(text, Bracket(key), 1) = {} THEN NotSearched
    ELSE [start |-> 1,
          end   |-> GreedyOccurrence(text, Bracket(key), 1) + Len(Bracket(key))]

\* a search for a placeholder of any name: the first line that holds one, to
\* the end of the last one of that line
SubSearchAnyName(text, key) ==
    LET ends(s) == {p + 2 : p \in {q \in s..LineEnd(text, s) - 1 :
                        /\ q >= 3
                        /\ MatchAt(text, <<">", ">">>, q)
                        /\ \E o \in s..q - 3 : MatchAt(text, <<"<", "<">>, o)}}
        hits == {s \in LineStarts(text) : ends(s) # {}}
    IN  IF hits = {} THEN NotSearched
        ELSE [start |-> Min(hits), end |-> Max(ends(Min(hits)))]

\* sub_re.search(template) with r'^.*<<key>>' and re.MULTILINE: the first line
\* that holds the placeholder, from its start to the end of the placeholder
\* (start as a 1-based position, end as the 1-based position after the match)
SubSearch(text, key) ==
    LET pat  == Bracket(key)
        hits == {s \in LineStarts(text) : Occurrences(text, pat, s) # {}}
    IN  IF hits = {} THEN NotSearched
        ELSE [start |-> Min(hits),
              end   |-> GreedyOccurrence(text, pat, Min(hits)) + Len(pat)]

\* unsubbed.search(template) with r'<<\w*>>' at position p
UnsubbedAt(text, p) ==
    /\ MatchAt(text, <<"<", "<">>, p)
    /\ MatchAt(text, <<">", ">">>, RunEnd(text, p + 2, WordChars))

\* unsubbed.search(template).group(), <<>> when the search is None
UnsubbedSearch(text) ==
    LET hits == {p \in 1..Len(text) : UnsubbedAt(text, p)}
    IN  IF hits = {} THEN <<>>
        ELSE SubSeq(text, Min(hits), RunEnd(text, Min(hits) + 2, WordChars) + 1)

(***************************************************************************)
(* The definition table: a dict, kept as the sequence of its items in      *)
(* insertion order.                                                        *)
(***************************************************************************)
Keys(subs) == {subs[i].key : i \in 1..Len(subs)}

\* subs[key], for a key of subs
Value(subs, key) == subs[CHOOSE i \in 1..Len(subs) : subs[i].key = key].val

\* subs[key] = val: a new key goes last, a key the dict holds keeps its place
Insert(subs, key, val) ==
    IF key \in Keys(subs)
    THEN [i \in 1..Len(subs) |->
            IF subs[i].key = key THEN [key |-> key, val |-> val] ELSE subs[i]]
    ELSE Append(subs, [key |-> key, val |-> val])

\* the test of line 71 left out
NeverInSubs(subs, argument_name) == FALSE

\* lines 71-72: the test that guards the insertion
AlreadyInSubs(subs, argument_name) == argument_name \in Keys(subs)

RECURSIVE FindArguments(_, _, _)
\* lines 59-73: the definitions after the header lines are read, and the name
\* the RuntimeError of line 72 is raised for (<<>> when it is not raised)
FindArguments(template_lines, found_argument_header, subs) ==
    IF template_lines = <<>> THEN [subs |-> subs, raised |-> <<>>]
    ELSE LET line == Head(template_lines)
             argument_match == ArgumentMatch(line)
         IN  IF HeaderMatch(line)
             THEN FindArguments(Tail(template_lines), TRUE, subs)
             ELSE IF ~found_argument_header
             THEN FindArguments(Tail(template_lines), FALSE, subs)
             ELSE IF argument_match = NoArgument
             THEN [subs |-> subs, raised |-> <<>>]
             ELSE IF AlreadyInSubs(subs, argument_match.name)
             THEN [subs |-> subs, raised |-> argument_match.name]
             ELSE FindArguments(Tail(template_lines), TRUE,
                      Insert(subs, argument_match.name, argument_match.value))

\* a text buffer from which the header lines have been taken out
BodyOnly(template_lines) ==
    LET Kept(line) == ~HeaderMatch(line) /\ ArgumentMatch(line) = NoArgument
    IN  Join(SelectSeq(template_lines, Kept), <<>>)

\* line 75: the text buffer is every line that was read, header lines too
TemplateText(template_lines) == Join(template_lines, <<>>)

(***************************************************************************)
(* One replacement, lines 93-101.                                          *)
(***************************************************************************)
\* line 93
WhiteSpaceAmount(searched, sub_key_bracket) ==
    searched.end - searched.start - Len(sub_key_bracket)

\* the text before the placeholder copied, in place of blanks of its width
PrefixCopied(white_space_amount, first_characters) == first_characters

\* line 94
WhiteSpace(white_space_amount, first_characters) == Spaces(white_space_amount)

\* lines 99-100
WhiteSubVals(first_characters, white_space, sub_val_split) ==
    [i \in 1..Len(sub_val_split) |->
        IF i = 1 THEN first_characters \o sub_val_split[1]
        ELSE white_space \o sub_val_split[i]]

\* the text kept from the line after the placeholder's on
TextAfterLine(text, searched) == Drop(text, LineEnd(text, searched.start))

\* line 101: template[searched.end():]
TextAfter(text, searched) == Drop(text, searched.end)

\* lines 93-101: the text after the placeholder found by searched is replaced
Replaced(text, searched, key, sub_val_raw) ==
    LET sub_key_bracket    == Bracket(key)
        sub_val_split      == Split(sub_val_raw)
        white_space_amount == WhiteSpaceAmount(searched, sub_key_bracket)
        first_characters   ==
            SubSeq(text, searched.start, searched.start + white_space_amount - 1)
        white_space        == WhiteSpace(white_space_amount, first_characters)
        white_sub_vals     ==
            WhiteSubVals(first_characters, white_space, sub_val_split)
    IN  SubSeq(text, 1, searched.start - 1)
            \o Join(white_sub_vals, <<NL>>)
            \o TextAfter(text, searched)

RECURSIVE PassFrom(_, _, _)
\* lines 88-101, from item i of subs_re on: the text after the rest of the pass
\* and whether a placeholder was found
PassFrom(text, subs, i) ==
    IF i > Len(subs) THEN [text |-> text, found |-> FALSE]
    ELSE LET searched == SubSearch(text, subs[i].key)
         IN  IF searched = NotSearched THEN PassFrom(text, subs, i + 1)
             ELSE [text  |-> PassFrom(Replaced(text, searched, subs[i].key,
                                               subs[i].val), subs, i + 1).text,
                   found |-> TRUE]

RECURSIVE Expanded(_, _)
\* lines 86-103: the text the while loop ends with, when it ends
Expanded(text, subs) ==
    LET pass == PassFrom(text, subs, 1)
    IN  IF pass.found THEN Expanded(pass.text, subs) ELSE pass.text

(***************************************************************************)
(* The emitted document, lines 110-118.                                    *)
(***************************************************************************)
Hashes(n) == [k \in 1..n |-> "#"]

BannerWidth == 48

BannerText ==
    <<"T","H","I","S"," ","F","I","L","E"," ","I","S"," ",
      "A","U","T","O","G","E","N","E","R","A","T","E","D","."," ",
      "D","O"," ","N","O","T"," ","E","D","I","T",".">>

\* lines 110-114
Banner ==
    <<Hashes(BannerWidth),
      Hashes(3) \o Spaces(BannerWidth - 6) \o Hashes(3),
      Hashes(3) \o <<SP>> \o BannerText \o <<SP>> \o Hashes(3),
      Hashes(3) \o Spaces(BannerWidth - 6) \o Hashes(3),
      Hashes(BannerWidth)>>

\* a document that ends with a line feed of its own after the text
DocumentTrailed(text) == Join(Banner \o <<<<>>, text, <<>>>>, <<NL>>)

\* lines 110-116
Document(text) == Join(Banner \o <<<<>>, text>>, <<NL>>)

\* a file opened with mode='a': the document follows what the file held
Appended(old, document) ==
    IF old = <<"(no file)">> THEN document ELSE old \o document

\* io.open(..., mode='w') and f.write(template): the file holds the document
Written(old, document) == document

(***************************************************************************)
(* The state of the program.                                               *)
(***************************************************************************)
VARIABLES
    module_subs,   \* the dict literal of lines 124-413, as the module text has it
    global_subs,   \* the module-level dict global_subs of the running process
    templates,     \* the <filename>.template files
    files,         \* the files of ../workflows
    todo,          \* the calls main has still to make
    reruns,        \* how many times the script will be run again
    pc,            \* where the process is: main, loop, check, raised, overflow
    filename,      \* _substitute's argument
    subs,          \* _substitute's dict of keyword arguments
    template,      \* _substitute's text buffer
    idx,           \* the item of subs_re the for loop of line 88 is at
    found,         \* line 87
    passes,        \* passes of the while loop begun in this call (to MaxPasses)
    pass_start,    \* the text buffer when the current pass began
    error,         \* the RuntimeError that ended the run
    outcomes       \* for each file, the outcome of every call made for it

vars ==
    <<module_subs, global_subs, templates, files, todo, reruns, pc, filename,
      subs, template, idx, found, passes, pass_start, error, outcomes>>

locals == <<filename, subs, template, idx, found, passes, pass_start>>

environment == <<module_subs, templates>>

\* lines 416-421, the first MaxDocs of them
AllDocs == <<"build.yml", "deploy.yml", "test_deployed.yml", "log_dispatch.yml">>

DocList == SubSeq(AllDocs, 1, MaxDocs)

DocNames == {DocList[i] : i \in 1..Len(DocList)}

\* no file of that name
NoFile == <<"(no file)">>

\* a file left by an earlier version of the templates
OldDoc == <<"o", "l", "d", NL>>

NoError == [kind |-> "", what |-> <<>>, filename |-> ""]

\* line 72
DuplicateError(argument_name, fn) ==
    [kind |-> "Argument already in subs", what |-> argument_name, filename |-> fn]

\* line 108
UnsubbedError(token, fn) ==
    [kind |-> "Found unsubbed string", what |-> token, filename |-> fn]

(***************************************************************************)
(* The inputs: template files and definition tables.                       *)
(***************************************************************************)
a == <<"a">>

b == <<"b">>

a_b == <<"a", "-", "b">>

RECURSIVE Flatten(_)
Flatten(parts) == IF parts = <<>> THEN <<>> ELSE Head(parts) \o Flatten(Tail(parts))

SeqsUpTo(S, n) == UNION {[1..k -> S] : k \in 0..n}

\* what a generated template body is made of
BodyTokens == {<<"x">>, <<SP>>, <<NL>>, Bracket(a), Bracket(b)}

BodyTemplates == {Flatten(ts) : ts \in SeqsUpTo(BodyTokens, MaxTokens)}

ValuesA ==
    {<<"v">>, <<>>, <<"L", NL, "M">>, Bracket(b), <<"L", NL, SP>> \o Bracket(b),
     <<"L", NL>> \o Bracket(b) \o Bracket(b)}

ValuesB ==
    {<<"w">>, <<"N", NL, "O">>, <<"w", NL>>, Bracket(a), Bracket(b)}

Item(key, val) == [key |-> key, val |-> val]

BodyTables ==
    {<<>>}
    \cup {<<Item(a, va)>> : va \in ValuesA}
    \cup {<<Item(b, vb)>> : vb \in ValuesB}
    \cup {<<Item(a, va), Item(b, vb)>> : va \in ValuesA, vb \in ValuesB}
    \cup {<<Item(b, vb), Item(a, va)>> : va \in ValuesA, vb \in ValuesB}

\* the lines a generated template with a declaration header is made of
MarkerLine == <<"#", SP>> \o ArgumentsWord \o <<NL>>

HeaderLines ==
    {MarkerLine,
     <<"#", SP, "a", ":", SP, "1", NL>>,
     <<"#", "a", "-", "b", ":", SP, "2", SP, "#", SP, "c", NL>>,
     Bracket(a) \o <<SP>> \o Bracket(a_b) \o <<NL>>}

HeaderTemplates == {Flatten(ls) : ls \in SeqsUpTo(HeaderLines, MaxLines)}

HeaderTables == {<<>>, <<Item(a, <<"v">>)>>, <<Item(a, Bracket(a_b))>>}

\* the templates of the documents after the first
FollowTemplates ==
    {Bracket(a) \o <<NL>>,
     MarkerLine \o <<"#", SP, "a", ":", SP, "3", NL>> \o Bracket(a) \o <<NL>>}

PlainTemplate == <<"x", NL>>

InitWith(table, tpls, out, r) ==
    /\ module_subs = table
    /\ global_subs = table
    /\ templates = tpls
    /\ files = out
    /\ todo = DocList
    /\ reruns = r
    /\ pc = "main"
    /\ filename = ""
    /\ subs = <<>>
    /\ template = <<>>
    /\ idx = 0
    /\ found = FALSE
    /\ passes = 0
    /\ pass_start = <<>>
    /\ error = NoError
    /\ outcomes = [d \in DocNames |-> <<>>]

\* one generated template body under every table, the other documents plain
InitBody ==
    \E t \in BodyTemplates, table \in BodyTables :
        InitWith(table,
                 [d \in DocNames |-> IF d = DocList[1] THEN t ELSE PlainTemplate],
                 [d \in DocNames |-> NoFile], 0)

\* a generated header in the first template, the script run MaxRuns times
InitHeader ==
    \E t \in HeaderTemplates, table \in HeaderTables,
       rest \in FollowTemplates,
       old \in {NoFile, OldDoc} :
        InitWith(table,
                 [d \in DocNames |-> IF d = DocList[1] THEN t ELSE rest],
                 [d \in DocNames |-> old], MaxRuns - 1)

Init == InitBody \/ InitHeader

(***************************************************************************)
(* The steps of the program.                                               *)
(***************************************************************************)
\* a call handed the caller's dict itself
GlobalAliased(caller_subs, call_subs) == call_subs

\* lines 36 and 418-421: **global_subs hands the call a dict of its own, so
\* what the call does to subs leaves the caller's dict as it was
GlobalAfterCall(caller_subs, call_subs) == caller_subs

Record(d, outcome) == [outcomes EXCEPT ![d] = Append(@, outcome)]

ResetLocals ==
    /\ filename' = ""
    /\ subs' = <<>>
    /\ template' = <<>>
    /\ idx' = 0
    /\ found' = FALSE
    /\ passes' = 0
    /\ pass_start' = <<>>

\* lines 418-421 and 36-86: main calls _substitute, which reads the template,
\* finds its arguments and enters the while loop
Call ==
    /\ pc = "main"
    /\ todo # <<>>
    /\ LET template_lines == ReadLines(templates[Head(todo)])
           args == FindArguments(template_lines, FALSE, global_subs)
       IN  /\ args.raised = <<>>
           /\ filename' = Head(todo)
           /\ subs' = args.subs
           /\ global_subs' = GlobalAfterCall(global_subs, args.subs)
           /\ template' = TemplateText(template_lines)
           /\ pass_start' = TemplateText(template_lines)
    /\ pc' = "loop"
    /\ idx' = 1
    /\ found' = FALSE
    /\ passes' = 1
    /\ UNCHANGED <<environment, files, todo, reruns, error, outcomes>>

\* lines 418-421 and 36-72: the call ends in line 72's RuntimeError, which
\* main does not catch
RaiseDuplicate ==
    /\ pc = "main"
    /\ todo # <<>>
    /\ LET template_lines == ReadLines(templates[Head(todo)])
           args == FindArguments(template_lines, FALSE, global_subs)
       IN  /\ args.raised # <<>>
           /\ filename' = Head(todo)
           /\ subs' = args.subs
           /\ global_subs' = GlobalAfterCall(global_subs, args.subs)
           /\ error' = DuplicateError(args.raised, Head(todo))
           /\ outcomes' = Record(Head(todo), DuplicateError(args.raised, Head(todo)))
    /\ pc' = "raised"
    /\ UNCHANGED <<environment, files, todo, reruns, template, idx, found,
                   passes, pass_start>>

\* lines 88-91: the placeholder of the item is not in the text
SubNotFound ==
    /\ pc = "loop"
    /\ idx <= Len(subs)
    /\ SubSearch(template, subs[idx].key) = NotSearched
    /\ idx' = idx + 1
    /\ UNCHANGED <<environment, global_subs, files, todo, reruns, pc, filename,
                   subs, template, found, passes, pass_start, error, outcomes>>

\* the flag left as it was
FoundKept(pass_found) == pass_found

\* line 92: found = True
FoundSet(pass_found) == TRUE

\* lines 88-101: the placeholder of the item is found and replaced
SubFound ==
    /\ pc = "loop"
    /\ idx <= Len(subs)
    /\ LET searched == SubSearch(template, subs[idx].key)
           new == Replaced(template, searched, subs[idx].key, subs[idx].val)
       IN  /\ searched # NotSearched
           /\ Len(new) <= MaxLen
           /\ template' = new
    /\ found' = FoundSet(found)
    /\ idx' = idx + 1
    /\ UNCHANGED <<environment, global_subs, files, todo, reruns, pc, filename,
                   subs, passes, pass_start, error, outcomes>>

\* the text outgrows the model: the loop is followed no further
Overflow ==
    /\ pc = "loop"
    /\ idx <= Len(subs)
    /\ LET searched == SubSearch(template, subs[idx].key)
           new == Replaced(template, searched, subs[idx].key, subs[idx].val)
       IN  /\ searched # NotSearched
           /\ Len(new) > MaxLen
    /\ pc' = "overflow"
    /\ UNCHANGED <<environment, global_subs, files, todo, reruns, filename,
                   subs, template, idx, found, passes, pass_start, error, outcomes>>

\* a loop that makes one pass only
SinglePass(pass_found) == TRUE

\* lines 102-103: the loop is left when the pass just made found no placeholder
LoopEnds(pass_found) == ~pass_found

\* lines 102, 86-87: the pass found a placeholder, so another pass begins
NextPass ==
    /\ pc = "loop"
    /\ idx = Len(subs) + 1
    /\ ~LoopEnds(found)
    /\ found' = FALSE
    /\ idx' = 1
    /\ passes' = IF passes < MaxPasses THEN passes + 1 ELSE passes
    /\ pass_start' = template
    /\ UNCHANGED <<environment, global_subs, files, todo, reruns, pc, filename,
                   subs, template, error, outcomes>>

\* lines 102-103: the pass found nothing, so the loop ends
ExitLoop ==
    /\ pc = "loop"
    /\ idx = Len(subs) + 1
    /\ LoopEnds(found)
    /\ pc' = "check"
    /\ UNCHANGED <<environment, global_subs, files, todo, reruns, filename,
                   subs, template, idx, found, passes, pass_start, error, outcomes>>

\* the document written before the text is validated
FileWrittenFirst(old, text) == Document(text)

\* lines 105-118: line 108 raises before line 117 opens the file, so the file
\* is as it was
FileAfterRaise(old, text) == old

\* lines 105-108: a placeholder is left, and the call ends in a RuntimeError
RaiseUnsubbed ==
    /\ pc = "check"
    /\ UnsubbedSearch(template) # <<>>
    /\ pc' = "raised"
    /\ error' = UnsubbedError(UnsubbedSearch(template), filename)
    /\ outcomes' = Record(filename, UnsubbedError(UnsubbedSearch(template), filename))
    /\ files' = [files EXCEPT ![filename] = FileAfterRaise(@, template)]
    /\ UNCHANGED <<environment, global_subs, todo, reruns, locals>>

\* lines 105-120: no placeholder is left, the document is written and the
\* call returns to main
Emit ==
    /\ pc = "check"
    /\ UnsubbedSearch(template) = <<>>
    /\ files' = [files EXCEPT ![filename] = Written(@, Document(template))]
    /\ outcomes' = Record(filename,
           [kind |-> "written", what |-> Written(files[filename], Document(template)),
            filename |-> filename])
    /\ todo' = Tail(todo)
    /\ pc' = "main"
    /\ ResetLocals
    /\ UNCHANGED <<environment, global_subs, reruns, error>>

\* the script is run again: a new process, the same files
Rerun ==
    /\ pc = "raised" \/ (pc = "main" /\ todo = <<>>)
    /\ reruns > 0
    /\ reruns' = reruns - 1
    /\ global_subs' = module_subs
    /\ todo' = DocList
    /\ pc' = "main"
    /\ error' = NoError
    /\ ResetLocals
    /\ UNCHANGED <<environment, files, outcomes>>

Next ==
    \/ Call
    \/ RaiseDuplicate
    \/ SubNotFound
    \/ SubFound
    \/ Overflow
    \/ NextPass
    \/ ExitLoop
    \/ RaiseUnsubbed
    \/ Emit
    \/ Rerun

Spec == Init /\ [][Next]_vars

(***************************************************************************)
(* Vocabulary of the properties.                                           *)
(***************************************************************************)
\* where a placeholder <<name>> begins in text, name a non-empty identifier of
\* letters, digits, hyphen and underscore
PlaceholderStarts(text) ==
    {p \in 1..Len(text) :
        /\ MatchAt(text, <<"<", "<">>, p)
        /\ RunEnd(text, p + 2, NameChars) > p + 2
        /\ MatchAt(text, <<">", ">">>, RunEnd(text, p + 2, NameChars))}

\* the names of the placeholders of text
PlaceholderNames(text) ==
    {SubSeq(text, p + 2, RunEnd(text, p + 2, NameChars) - 1) :
        p \in PlaceholderStarts(text)}

\* the names the value of name refers to
Refs(table, name) ==
    IF name \in Keys(table) THEN PlaceholderNames(Value(table, name)) ELSE {}

RECURSIVE Reach(_, _)
\* the names reached from the names of S through the values of the table
Reach(table, S) ==
    LET T == S \cup UNION {Refs(table, n) : n \in S}
    IN  IF T = S THEN S ELSE Reach(table, T)

\* the names reachable from the text, directly or through definition values
Reachable(text, table) == Reach(table, PlaceholderNames(text))

\* the text reaches a reference cycle of the table
ReachesCycle(text, table) ==
    \E n \in Reachable(text, table) : n \in Reach(table, Refs(table, n))

\* every placeholder reachable from the text has a definition, and no cycle
AcyclicCovered(text, table) ==
    /\ Reachable(text, table) \subseteq Keys(table)
    /\ ~ReachesCycle(text, table)

\* a call of _substitute is in progress or has just raised
InCall == filename # ""

\* the call is past line 84, with the merged table in subs
Merged == pc \in {"loop", "check", "overflow"} \/ (pc = "raised" /\ error.kind = "Found unsubbed string")

\* the file holds a document written by _substitute
IsWritten(d) == files[d] \notin {NoFile, OldDoc}

\* the five banner lines and the empty line that every document begins with
BannerBlock == Join(Banner, <<NL>>) \o <<NL, NL>>

(***************************************************************************)
(* C1.  A template that reaches a reference cycle among the definitions    *)
(* ends in the RuntimeError of line 108 (UnresolvedPlaceholder) and its    *)
(* while loop does not run forever.  The loop is deterministic in the text *)
(* and the table, so a loop that ends never completes a pass that found a  *)
(* placeholder with the text that pass began with: such a pass is repeated *)
(* without end.                                                            *)
(***************************************************************************)
C1_CycleRaises ==
    InCall /\ Merged /\ ReachesCycle(templates[filename], subs)
        => /\ ~(pc = "loop" /\ idx = Len(subs) + 1 /\ found
                    /\ template = pass_start)
           /\ pc = "check" => UnsubbedSearch(template) # <<>>

(***************************************************************************)
(* C2.  Completeness: a call whose template and merged table have an       *)
(* acyclic reference graph that defines every reachable placeholder        *)
(* is not ended by an error, emits a text with no <<name>> token, and its  *)
(* loop ends: the replacements still to be made, counted with those their  *)
(* values bring in, go down by one for every pass begun, so the loop       *)
(* begins at most one pass more than the template had replacements to make.*)
(***************************************************************************)
NameAt(text, p) == SubSeq(text, p + 2, RunEnd(text, p + 2, NameChars) - 1)

RECURSIVE SumOver(_, _)
SumOver(f, S) ==
    IF S = {} THEN 0
    ELSE LET x == CHOOSE y \in S : TRUE IN f[x] + SumOver(f, S \ {x})

RECURSIVE Pending(_, _)
\* the replacements the text still needs, for a table that is acyclic and
\* defines every placeholder reachable from the text
Pending(text, table) ==
    SumOver([p \in PlaceholderStarts(text) |->
                1 + Pending(Value(table, NameAt(text, p)), table)],
            PlaceholderStarts(text))

C2_Pre == InCall /\ Merged /\ AcyclicCovered(templates[filename], subs)

C2_Completeness ==
    C2_Pre =>
        /\ pc \notin {"raised", "overflow"}
        /\ pc = "check" => /\ PlaceholderNames(template) = {}
                           /\ UnsubbedSearch(template) = <<>>
        /\ pc = "loop" =>
               (passes - 1) + (IF found THEN 1 ELSE 0) + Pending(template, subs)
                   <= Pending(templates[filename], subs)

\* a covered template whose placeholders took three passes to resolve is
\* about to be emitted
C2_Witness ==
    /\ pc = "check"
    /\ C2_Pre
    /\ PlaceholderNames(templates[filename]) # {}
    /\ passes >= 3

(***************************************************************************)
(* C3.  Leftover validation: a call that ends its loop with a placeholder  *)
(* <<name>> in the text (letters, digits, hyphen, underscore) ends in the  *)
(* RuntimeError of line 108, which carries a placeholder of the text and   *)
(* the file name; no written document holds such a placeholder.            *)
(***************************************************************************)
C3_LeftoverRejected ==
    /\ \A d \in DocNames : IsWritten(d) => PlaceholderNames(files[d]) = {}
    /\ pc = "raised" /\ error.kind = "Found unsubbed string"
        => /\ error.filename = filename
           /\ \E p \in PlaceholderStarts(template) :
                  MatchAt(template, error.what, p)

(***************************************************************************)
(* The declaration header as section 4.1 of the specification has it: the  *)
(* first marker line and the run of declaration lines that follows it.     *)
(***************************************************************************)
\* the first marker line, Len(lines) + 1 when there is none
MarkerIndex(lines) ==
    Min({i \in 1..Len(lines) : HeaderMatch(lines[i])} \cup {Len(lines) + 1})

\* the first line after the marker line that is no declaration
HeaderEnd(lines) ==
    Min({i \in MarkerIndex(lines) + 1..Len(lines) :
            ArgumentMatch(lines[i]) = NoArgument} \cup {Len(lines) + 1})

\* the declarations of the header, in order
HeaderDecls(lines) ==
    [i \in 1..HeaderEnd(lines) - MarkerIndex(lines) - 1 |->
        ArgumentMatch(lines[MarkerIndex(lines) + i])]

\* the value of the first declaration of name after the marker line
FirstDeclared(lines, name) ==
    ArgumentMatch(lines[
        Min({i \in MarkerIndex(lines) + 1..Len(lines) :
                ArgumentMatch(lines[i]).name = name})]).value

\* declaration i of the header collides with the table or an earlier one
Collides(decls, table, i) ==
    decls[i].name \in Keys(table) \cup {decls[j].name : j \in 1..i - 1}

CallLines == ReadLines(templates[filename])

(***************************************************************************)
(* C4.  Duplicate rejection: when the header of the template declares a    *)
(* name that the caller's table holds, or declares a name twice, the call  *)
(* ends in the RuntimeError of line 72, which carries the first such name  *)
(* and the file name; and every name of the table of a call keeps the      *)
(* value first bound to it: the caller's value, or that of its first       *)
(* declaration.                                                            *)
(***************************************************************************)
C4_DuplicateRejected ==
    InCall =>
        LET decls == HeaderDecls(CallLines)
            colliding == {i \in 1..Len(decls) : Collides(decls, global_subs, i)}
        IN  /\ colliding # {} =>
                /\ pc = "raised"
                /\ error = DuplicateError(decls[Min(colliding)].name, filename)
            /\ \A n \in Keys(global_subs) :
                   n \in Keys(subs) /\ Value(subs, n) = Value(global_subs, n)
            /\ \A i \in 1..Len(subs) :
                   /\ \A j \in 1..Len(subs) : subs[i].key = subs[j].key => i = j
                   /\ subs[i].key \notin Keys(global_subs) =>
                          subs[i].val = FirstDeclared(CallLines, subs[i].key)

\* the header declares a name of the caller's table, and line 72 has raised
C4_Witness ==
    /\ pc = "raised"
    /\ error.kind = "Argument already in subs"
    /\ error.what \in Keys(global_subs)
    /\ \E i \in 1..Len(HeaderDecls(CallLines)) :
           HeaderDecls(CallLines)[i].name = error.what

(***************************************************************************)
(* C5.  Prefix preservation and indentation fidelity: every replacement    *)
(* takes a placeholder at some column c of some line, with prefix p, and   *)
(* a value of lines v0 .. vk; the line becomes p v0, and k lines follow,   *)
(* each made of c spaces and vi (the rest of the placeholder's line ends   *)
(* the last of them), whatever else the pass replaces.                     *)
(***************************************************************************)
\* lb and la are the lines of the text before and after a replacement of the
\* placeholder of key, at column c (0-based) of line L, by the lines v
ReplacedAtColumn(lb, la, key, v, L, c) ==
    LET k    == Len(v) - 1
        p    == SubSeq(lb[L], 1, c)
        rest == Drop(lb[L], c + Len(Bracket(key)) + 1)
    IN  /\ MatchAt(lb[L], Bracket(key), c + 1)
        /\ Len(la) = Len(lb) + k
        /\ \A i \in 0..k :
               la[L + i] = (IF i = 0 THEN p ELSE Spaces(c)) \o v[i + 1]
                               \o (IF i = k THEN rest ELSE <<>>)

C5_IndentationFidelity ==
    [][SubFound =>
          LET lb == Split(template)
              la == Split(template')
              v  == Split(subs[idx].val)
          IN  \E L \in 1..Len(lb) : \E c \in 0..Len(lb[L]) :
                  ReplacedAtColumn(lb, la, subs[idx].key, v, L, c)]_vars

\* the first item of the pass, a value of several lines, has just been put in
\* after a prefix that is not blank
C5_Witness ==
    /\ pc = "loop"
    /\ idx = 2
    /\ found
    /\ Len(Split(subs[1].val)) > 1
    /\ LET lb == Split(pass_start)
           la == Split(template)
       IN  \E L \in 1..Len(lb) : \E c \in 1..Len(lb[L]) :
               /\ ReplacedAtColumn(lb, la, subs[1].key, Split(subs[1].val), L, c)
               /\ "x" \in {lb[L][i] : i \in 1..c}

(***************************************************************************)
(* C6.  Order independence: for an acyclic table that defines every        *)
(* placeholder, the text the loop ends with is the text it ends with       *)
(* under every other order of the items of the table.                      *)
(***************************************************************************)
Orders(table) ==
    {[i \in 1..Len(table) |-> table[f[i]]] : f \in Permutations(1..Len(table))}

C6_OrderIndependent ==
    pc = "check" /\ AcyclicCovered(templates[filename], subs)
        => \A o \in Orders(subs) : Expanded(templates[filename], o) = template

(***************************************************************************)
(* C7.  Determinism: the calls made for one template file, with the same   *)
(* table, all have the same outcome: the same RuntimeError, or the same    *)
(* document in the file.                                                   *)
(***************************************************************************)
C7_Deterministic ==
    \A d \in DocNames :
        \A i, j \in 1..Len(outcomes[d]) : outcomes[d][i] = outcomes[d][j]

\* a document with a placeholder has been written twice, and another call
\* has twice ended in the same error
C7_Witness ==
    /\ \E d \in DocNames :
           /\ Len(outcomes[d]) >= 2
           /\ outcomes[d][2].kind = "written"
           /\ PlaceholderNames(templates[d]) # {}
    /\ \E d \in DocNames :
           /\ Len(outcomes[d]) >= 2
           /\ outcomes[d][2].kind = "Found unsubbed string"

(***************************************************************************)
(* C8.  Isolation between documents: the calls leave the global table as   *)
(* the module defines it; the table of a call holds the global items and   *)
(* the names its own template declares, and no others; a call raises for   *)
(* a duplicate only when its own template declares a global name or        *)
(* declares a name twice; and a call begins with the text of its own       *)
(* template.                                                               *)
(***************************************************************************)
\* the names the lines of the template declare
DeclaredNames(lines) ==
    {ArgumentMatch(lines[i]).name : i \in 1..Len(lines)} \ {<<>>}

C8_Isolation ==
    /\ global_subs = module_subs
    /\ InCall =>
        /\ Keys(subs) \subseteq Keys(module_subs) \cup DeclaredNames(CallLines)
        /\ Len(subs) >= Len(module_subs)
        /\ SubSeq(subs, 1, Len(module_subs)) = module_subs
        /\ pc = "raised" /\ error.kind = "Argument already in subs" =>
               \/ error.what \in Keys(module_subs)
               \/ Cardinality({i \in 1..Len(CallLines) :
                       ArgumentMatch(CallLines[i]).name = error.what}) >= 2
        /\ pc = "loop" /\ passes = 1 /\ ~found => template = templates[filename]

\* the first document was written with a name its header declared; the
\* second uses that name without declaring it, and the name is unresolved
C8_Witness ==
    /\ IsWritten(DocList[1])
    /\ InCall
    /\ filename = DocList[2]
    /\ pc = "raised"
    /\ error.kind = "Found unsubbed string"
    /\ \E n \in DeclaredNames(ReadLines(templates[DocList[1]])) \ Keys(module_subs) :
           /\ error.what = Bracket(n)
           /\ n \notin Keys(subs)
           /\ PlaceholderNames(files[DocList[1]]) = {}

(***************************************************************************)
(* C9.  All or nothing: only the step that ends a call after its           *)
(* validation has found no placeholder changes a file, and only the file   *)
(* of that call; a call that ends in a RuntimeError leaves every file as   *)
(* it was.                                                                 *)
(***************************************************************************)
C9_AllOrNothing ==
    [][/\ files' # files =>
            /\ pc = "check"
            /\ pc' = "main"
            /\ UnsubbedSearch(template) = <<>>
            /\ \A d \in DocNames \ {filename} : files'[d] = files[d]
            /\ files'[filename] = Document(template)
       /\ pc' = "raised" => files' = files]_vars

\* a call has ended in line 108's error and the file it would have written
\* holds what it held before
C9_Witness ==
    /\ pc = "raised"
    /\ error.kind = "Found unsubbed string"
    /\ files[filename] = OldDoc
    /\ template # templates[filename]

(***************************************************************************)
(* C10.  Argument extraction stops at the first line after the marker line *)
(* that is no declaration: the names a call adds to its table are exactly  *)
(* the declarations between the marker line and that line, and a template  *)
(* without a marker line adds none.                                        *)
(***************************************************************************)
C10_ExtractionStops ==
    InCall /\ Merged =>
        /\ Len(subs) = Len(global_subs) + Len(HeaderDecls(CallLines))
        /\ \A i \in 1..Len(HeaderDecls(CallLines)) :
               subs[Len(global_subs) + i] =
                   Item(HeaderDecls(CallLines)[i].name,
                        HeaderDecls(CallLines)[i].value)

(***************************************************************************)
(* C11.  Argument extraction leaves the template body alone: the text the  *)
(* while loop is entered with is the text of the template file, marker     *)
(* line and declaration lines in their places, and for a template without  *)
(* placeholders the written document is the banner followed by the text of *)
(* the template file, character for character.                             *)
(***************************************************************************)
C11_BodyKept ==
    /\ InCall /\ pc = "loop" /\ passes = 1 /\ idx = 1
           => template = templates[filename]
    /\ \A d \in DocNames :
           IsWritten(d) /\ PlaceholderNames(templates[d]) = {}
               => files[d] = BannerBlock \o templates[d]

\* a template with a marker line and a declaration, and no placeholder, has
\* been written
C11_Witness ==
    \E d \in DocNames :
        /\ IsWritten(d)
        /\ PlaceholderNames(templates[d]) = {}
        /\ HeaderDecls(ReadLines(templates[d])) # <<>>

(***************************************************************************)
(* C12.  Emitter: every document that is written is the five banner lines, *)
(* one empty line and then the validated expanded template (the text the   *)
(* while loop ended with, which holds no <<\w*>> token), with nothing      *)
(* added; a template "x<<a>>x" with the table {a: "v"} is written as the   *)
(* banner followed by exactly "xvx" (the scenario "Hello <<name>>!" with   *)
(* {name: "World"}).                                                       *)
(***************************************************************************)
HelloTemplate == <<"x">> \o Bracket(a) \o <<"x">>

HelloWorld == <<"x", "v", "x">>

C12_Emitted ==
    [][Emit =>
          /\ Len(Banner) = 5
          /\ \A i \in 1..5 : Len(Banner[i]) = BannerWidth /\ NL \notin
                 {Banner[i][k] : k \in 1..BannerWidth}
          /\ UnsubbedSearch(template) = <<>>
          /\ template = Expanded(templates[filename], subs)
          /\ files'[filename] = BannerBlock \o template
          /\ (templates[filename] = HelloTemplate /\ subs = <<Item(a, <<"v">>)>>)
                 => files'[filename] = BannerBlock \o HelloWorld]_vars

\* the scenario's document has been written
C12_Witness ==
    \E d \in DocNames :
        /\ templates[d] = HelloTemplate
        /\ global_subs = <<Item(a, <<"v">>)>>
        /\ files[d] = BannerBlock \o HelloWorld

(***************************************************************************)
(* C13.  Transitive resolution: with the table {a: "<<b>>", b: "w"} and    *)
(* the template "<<a>>" the call raises nothing, its while loop ends with  *)
(* the text "w" and has then begun at least two passes, whichever of a and *)
(* b is processed first (the scenario {a: "<<b>>", b: "value"}).           *)
(***************************************************************************)
C13_Pre ==
    /\ InCall
    /\ templates[filename] = Bracket(a)
    /\ subs \in {<<Item(a, Bracket(b)), Item(b, <<"w">>)>>,
                 <<Item(b, <<"w">>), Item(a, Bracket(b))>>}

C13_Transitive ==
    C13_Pre =>
        /\ pc \notin {"raised", "overflow"}
        /\ pc = "check" => template = <<"w">> /\ passes >= 2

\* b is processed before a, and the loop has ended in its third pass
C13_Witness ==
    /\ C13_Pre
    /\ subs[1].key = b
    /\ pc = "check"
    /\ template = <<"w">>
    /\ passes = 3

(***************************************************************************)
(* C14.  Fixpoint exit condition: the while loop is left only at the end   *)
(* of a pass that went over every definition and found no placeholder (so  *)
(* the text is the one the pass began with); within a pass the definitions *)
(* are visited once each, in order, and a visit takes away at most one     *)
(* occurrence of its placeholder and none of another definition's; and     *)
(* when the loop is left the text holds no placeholder <<name>> whose name *)
(* is in the merged table.                                                 *)
(***************************************************************************)
\* how many times pat occurs in text
CountOf(text, pat) == Cardinality({p \in 1..Len(text) : MatchAt(text, pat, p)})

C14_FixpointExit ==
    [][/\ ExitLoop =>
              /\ idx = Len(subs) + 1
              /\ ~found
              /\ template = pass_start
              /\ \A i \in 1..Len(subs) : CountOf(template, Bracket(subs[i].key)) = 0
              /\ PlaceholderNames(template) \cap Keys(subs) = {}
       /\ pc' = "check" => ExitLoop
       /\ pc = "loop" /\ pc' = "loop" =>
              \/ idx <= Len(subs) /\ idx' = idx + 1
              \/ idx = Len(subs) + 1 /\ idx' = 1 /\ found /\ template' = template
       /\ SubFound =>
              \A i \in 1..Len(subs) :
                  CountOf(template', Bracket(subs[i].key))
                      >= CountOf(template, Bracket(subs[i].key))
                             - (IF i = idx THEN 1 ELSE 0)
                             + CountOf(subs[idx].val, Bracket(subs[i].key))
       /\ SubNotFound => template' = template]_vars

\* the loop has been left in its third pass: the text held one placeholder
\* twice and the other once, so two passes made replacements
C14_Witness ==
    /\ pc = "check"
    /\ passes = 3
    /\ Len(subs) = 2
    /\ \E i \in 1..2 : CountOf(templates[filename], Bracket(subs[i].key)) = 2
    /\ \A i \in 1..2 : CountOf(templates[filename], Bracket(subs[i].key)) > 0

(***************************************************************************)
(* C15.  Within a pass, the occurrence of a definition's placeholder that  *)
(* is replaced is the first one of the current text, also when its line    *)
(* holds the placeholder more than once: the replacement is made at the    *)
(* first line that holds the placeholder and at the least column of the    *)
(* placeholder in that line, and the indentation is that column.           *)
(***************************************************************************)
\* the line of lines that first holds pat
FirstLineWith(lines, pat) ==
    Min({L \in 1..Len(lines) : CountOf(lines[L], pat) > 0})

\* the least column (0-based) of pat in line
FirstColumn(line, pat) ==
    Min({c \in 0..Len(line) : MatchAt(line, pat, c + 1)})

C15_FirstOccurrence ==
    [][SubFound =>
          LET lb  == Split(template)
              pat == Bracket(subs[idx].key)
              L   == FirstLineWith(lb, pat)
          IN  ReplacedAtColumn(lb, Split(template'), subs[idx].key,
                               Split(subs[idx].val), L, FirstColumn(lb[L], pat))]_vars

(***************************************************************************)
(* C16.  Progress measure: a pass of the while loop that made a            *)
(* replacement ends with strictly fewer placeholders whose names are in    *)
(* the table than the text had when the pass began, and the loop begins    *)
(* another pass only after such a pass (a pass that did not lower the      *)
(* count stops the loop as stalled).                                       *)
(***************************************************************************)
\* the placeholders of text whose names are in the table
Unexpanded(text, table) ==
    Cardinality({p \in PlaceholderStarts(text) : NameAt(text, p) \in Keys(table)})

C16_ProgressMeasure ==
    pc = "loop" /\ idx = Len(subs) + 1 /\ found
        => Unexpanded(template, subs) < Unexpanded(pass_start, subs)

(***************************************************************************)
(* C17.  Nested indentation composes by column: when the template holds    *)
(* <<a>> at column c of a line, a's value has <<b>> at column d of a       *)
(* continuation line, and b's value has several lines (and the template    *)
(* itself holds no <<b>>, so that a's column at the time of its            *)
(* substitution is c), then the text the loop ends with has a line that    *)
(* holds the first line of b's value at column c+d, followed by lines made *)
(* of exactly c+d spaces and the continuation lines of b's value, for      *)
(* every such c and d.                                                     *)
(***************************************************************************)
\* the lines v begin at column col of line M of lines, the continuation lines
\* after col spaces
ValueAt(lines, M, col, v) ==
    /\ M + Len(v) - 1 <= Len(lines)
    /\ MatchAt(lines[M], v[1], col + 1)
    /\ \A j \in 2..Len(v) : MatchAt(lines[M + j - 1], Spaces(col) \o v[j], 1)

C17_Pre ==
    /\ InCall
    /\ pc = "check"
    /\ {a, b} \subseteq Keys(subs)
    /\ CountOf(templates[filename], Bracket(b)) = 0
    /\ PlaceholderNames(Value(subs, b)) = {}
    /\ Len(Split(Value(subs, b))) > 1

C17_NestedColumns ==
    C17_Pre =>
        LET t   == Split(templates[filename])
            X   == Split(Value(subs, a))
            Y   == Split(Value(subs, b))
            out == Split(template)
        IN  \A L \in 1..Len(t) : \A c \in 0..Len(t[L]) :
                MatchAt(t[L], Bracket(a), c + 1) =>
                    \A i \in 2..Len(X) : \A d \in 0..Len(X[i]) :
                        MatchAt(X[i], Bracket(b), d + 1) =>
                            \E M \in 1..Len(out) : ValueAt(out, M, c + d, Y)

(***************************************************************************)
(* C18.  Frame of one substitution step: a replacement changes nothing     *)
(* before the start of the placeholder's line and nothing after the        *)
(* placeholder: the text before that line begins the new text, the text    *)
(* after the placeholder (the rest of its line and every later line) ends  *)
(* it, and what stands directly before that rest is the last line of the   *)
(* value put in.                                                           *)
(***************************************************************************)
\* text ends with tail
EndsWith(text, tail) ==
    /\ Len(tail) <= Len(text)
    /\ SubSeq(text, Len(text) - Len(tail) + 1, Len(text)) = tail

C18_StepFrame ==
    [][SubFound =>
          LET pat  == Bracket(subs[idx].key)
              v    == Split(subs[idx].val)
          IN  \E s \in LineStarts(template) : \E p \in Occurrences(template, pat, s) :
                  LET before == SubSeq(template, 1, s - 1)
                      rest   == Drop(template, p + Len(pat))
                  IN  /\ SubSeq(template', 1, s - 1) = before
                      /\ EndsWith(template', v[Len(v)] \o rest)
                      /\ Len(template') >= Len(before) + Len(v[Len(v)]) + Len(rest)]_vars

\* a placeholder with a line before it and text after it on its line has just
\* been replaced
C18_Witness ==
    /\ pc = "loop"
    /\ idx = 2
    /\ found
    /\ \E s \in LineStarts(pass_start) :
           \E p \in Occurrences(pass_start, Bracket(subs[1].key), s) :
               /\ s > 1
               /\ p + Len(Bracket(subs[1].key)) <= Len(pass_start)
               /\ pass_start[p + Len(Bracket(subs[1].key))] = "x"
               /\ EndsWith(template, <<"x">>)
               /\ SubSeq(template, 1, s - 1) = SubSeq(pass_start, 1, s - 1)

(***************************************************************************)
(* The call as a function of its inputs, and a table without one name.     *)
(***************************************************************************)
\* lines 36-120: what a call of _substitute for file d ends in, given the
\* text of the template file and the caller's table (when its loop ends)
Result(text, table, d) ==
    LET template_lines == ReadLines(text)
        args == FindArguments(template_lines, FALSE, table)
        out  == Expanded(TemplateText(template_lines), args.subs)
    IN  IF args.raised # <<>> THEN DuplicateError(args.raised, d)
        ELSE IF UnsubbedSearch(out) # <<>>
        THEN UnsubbedError(UnsubbedSearch(out), d)
        ELSE [kind |-> "written", what |-> Document(out), filename |-> d]

\* the table without the definition of name
Without(table, name) ==
    LET Kept(item) == item.key # name
    IN  SelectSeq(table, Kept)

\* name is defined by the table, and its placeholder is neither in the text of
\* the template nor in a value that the text reaches
Unused(text, table, name) ==
    /\ name \in Keys(table)
    /\ name \notin Reachable(text, table)

LastOutcome(d) == outcomes[d][Len(outcomes[d])]

(***************************************************************************)
(* C19.  Unused definitions have no effect: when a call for a template has *)
(* ended, a call with the same template and the table without a definition *)
(* whose placeholder is neither in the template nor in any text reached    *)
(* from it ends in the same way: the same document, or the same error.     *)
(* As first stated, for every unused definition of the table:              *)
(***************************************************************************)
C19_UnusedNoEffect ==
    \A d \in DocNames : \A i \in 1..Len(module_subs) :
        (/\ pc \in {"main", "raised"}
         /\ outcomes[d] # <<>>
         /\ Unused(templates[d], module_subs, module_subs[i].key))
            => Result(templates[d], Without(module_subs, module_subs[i].key), d)
                   = LastOutcome(d)

(***************************************************************************)
(* C19, amended: the same, for every unused definition whose name no line  *)
(* of the template declares.                                               *)
(***************************************************************************)
C19_UnusedUndeclaredNoEffect ==
    \A d \in DocNames : \A i \in 1..Len(module_subs) :
        (/\ pc \in {"main", "raised"}
         /\ outcomes[d] # <<>>
         /\ Unused(templates[d], module_subs, module_subs[i].key)
         /\ module_subs[i].key \notin DeclaredNames(ReadLines(templates[d])))
            => Result(templates[d], Without(module_subs, module_subs[i].key), d)
                   = LastOutcome(d)

\* a document was written from a template with a placeholder, while the table
\* held an unused definition whose value refers to itself or to a name that
\* has no definition
C19_Witness ==
    \E d \in DocNames : \E i \in 1..Len(module_subs) :
        /\ outcomes[d] # <<>>
        /\ LastOutcome(d).kind = "written"
        /\ PlaceholderNames(templates[d]) # {}
        /\ Unused(templates[d], module_subs, module_subs[i].key)
        /\ module_subs[i].key \notin DeclaredNames(ReadLines(templates[d]))
        /\ \/ ReachesCycle(module_subs[i].val, module_subs)
           \/ ~(PlaceholderNames(module_subs[i].val) \subseteq Keys(module_subs))

(***************************************************************************)
(* C20.  Empty and newline-terminated values: a replacement by the empty   *)
(* value takes the placeholder away and keeps the text before it and the   *)
(* text after it (its line is not deleted); a replacement at column c by a *)
(* value that ends with a line feed keeps the text before the placeholder  *)
(* and ends with a new line made of exactly c spaces and the text that     *)
(* followed the placeholder; and every replacement adds as many lines as   *)
(* the value has line feeds.                                               *)
(***************************************************************************)
C20_EmptyAndTrailing ==
    [][SubFound =>
          LET pat == Bracket(subs[idx].key)
              val == subs[idx].val
          IN  /\ \E s \in LineStarts(template) :
                   \E p \in Occurrences(template, pat, s) :
                      LET before == SubSeq(template, 1, p - 1)
                          after  == Drop(template, p + Len(pat))
                      IN  /\ val = <<>> => template' = before \o after
                          /\ (val # <<>> /\ val[Len(val)] = NL) =>
                                 /\ SubSeq(template', 1, p - 1) = before
                                 /\ EndsWith(template',
                                             <<NL>> \o Spaces(p - s) \o after)
              /\ CountOf(template', <<NL>>)
                     = CountOf(template, <<NL>>) + CountOf(val, <<NL>>)]_vars

\* in one pass an empty value was put in after an x, which is still there,
\* and then a value that ends with a line feed, at a column past 0
C20_Witness ==
    /\ pc = "loop"
    /\ idx = 3
    /\ found
    /\ subs[1].val = <<>>
    /\ subs[2].val = <<"w", NL>>
    /\ CountOf(pass_start, Bracket(subs[1].key)) = 1
    /\ CountOf(pass_start, Bracket(subs[2].key)) = 1
    /\ CountOf(pass_start, <<"x">>) = 1
    /\ CountOf(template, <<"x">>) = 1
    /\ CountOf(template, <<NL, SP>>) = 1
    /\ PlaceholderNames(template) = {}

====
